---- MODULE Spec2Model ----
(***************************************************************************)
(* Model of openkentuckiana/power-outage-data:                             *)
(*   - GithubContents (src/base_scraper.py): read / write / write_large    *)
(*     against a remote git content store with a branch ref;               *)
(*   - Scraper.scrape_and_store (src/base_scraper.py): one pass            *)
(*     LoadPrior -> Fetch -> Compare -> {NoOp | Write};                    *)
(*   - KubraScraper.fetch_data / _fetch_data (src/kubra_scraper.py): the   *)
(*     recursive tile walk, with its call stack made explicit.             *)
(* Optional values are sequences of length 0 (None) or 1 (Some).  Object   *)
(* ids (sha) are positive integers, 0 meaning "no sha".                    *)
(***************************************************************************)
EXTENDS Integers, Sequences, FiniteSets, TLC

VARIABLES
    test_mode,          \* Scraper.test_mode (class attribute, fixed per run)
    github_token,       \* TRUE iff a credential was given to Scraper.__init__
    last_data,          \* Scraper.last_data: None or Some(snapshot)
    last_sha,           \* Scraper.last_sha: 0 (None) or a content (blob) sha
    pc,                 \* position of the orchestrator inside scrape_and_store
    outcome,            \* how the last finished pass ended
    err,                \* exception that ended the last pass ("" if none)
    data,               \* local `data` of scrape_and_store: None or Some(snapshot)
    message,            \* local `message` of scrape_and_store ("" before it is built)
    passes,             \* number of passes started
    w_sha,              \* parameter `sha` of the running GithubContents.write call
    created_blob,       \* write_large local: sha of created blob, 0 if the response held none
    default_branch_sha, \* write_large local: sha answered by the tree listing
    created_tree,       \* write_large local: None or Some(tree) of the created tree
    created_commit,     \* write_large local: sha of created commit, 0 if none
    blobs,              \* remote store: content objects, sha = index
    commits,            \* remote store: commit objects, sha = CommitSha(index)
    ref,                \* remote store: index of the commit the branch ref points at
    externals,          \* number of commits made by other writers
    baseline,           \* remote document and ref as they would be without this pass
    calls,              \* requests sent to the remote store by the running pass's write
    returned,           \* None or Some(<<content sha, commit sha>>) returned by write
    tiles,              \* vendor tile API: tile -> response
    expected_outages,   \* vendor-reported total (summary document)
    area_quadkeys,      \* quadkeys covering the service area at MIN_ZOOM
    stack,              \* call stack of _fetch_data (top = last element)
    already_seen,       \* the visited set of tile URLs of the running resolution pass
    fetch_log,          \* tile URLs requested in the running resolution pass, in order
    skipped,            \* tile URLs met again and skipped in the running resolution pass
    number_out,         \* fetch_data local: sum of numberOut over the resolved outages
    show_changes,       \* DeltaScraper.show_changes (class attribute, fixed per run)
    source_url,         \* DeltaScraper.source_url: None or Some(url)
    delta               \* locals of the last update_message call (ids added, removed, pairs changed)

store_vars == <<blobs, commits, ref, externals, baseline>>
write_vars == <<w_sha, created_blob, default_branch_sha, created_tree, created_commit, calls, returned>>
scraper_vars == <<test_mode, github_token, last_data, last_sha, pc, outcome, err, data, message, passes>>
kubra_vars == <<tiles, expected_outages, area_quadkeys, stack, already_seen, fetch_log, skipped,
               number_out>>
delta_vars == <<show_changes, source_url, delta>>
vars == <<scraper_vars, write_vars, store_vars, kubra_vars, delta_vars>>

(***************************************************************************)
(* Bounds of the model.                                                    *)
(***************************************************************************)
MaxPasses == 2
MaxExternal == 1
MaxTotal == 3

None == <<>>
Some(x) == <<x>>
IsSome(o) == Len(o) = 1
Get(o) == o[1]

(***************************************************************************)
(* Tiles and quadkeys (mercantile).  A tile is (x, y, z); its quadkey is   *)
(* the sequence of z digits 0..3, most significant first.  A point is kept *)
(* as the cell of the MAX_ZOOM grid it falls in.                           *)
(***************************************************************************)
MIN_ZOOM == 7
MAX_ZOOM == 14

Tile(x, y, z) == [x |-> x, y |-> y, z |-> z]

\* the digits of a quadkey, most significant first
QuadkeyDigits[x \in Nat, y \in Nat, z \in Nat] ==
    IF z = 0 THEN << >>
    ELSE Append(QuadkeyDigits[x \div 2, y \div 2, z - 1], (x % 2) + 2 * (y % 2))

\* mercantile.quadkey
quadkey(t) == QuadkeyDigits[t.x, t.y, t.z]

\* the column and the row a quadkey's first n digits stand for
QuadkeyX[q \in Seq(0..3), n \in Nat] ==
    IF n = 0 THEN 0 ELSE 2 * QuadkeyX[q, n - 1] + (q[n] % 2)

QuadkeyY[q \in Seq(0..3), n \in Nat] ==
    IF n = 0 THEN 0 ELSE 2 * QuadkeyY[q, n - 1] + (q[n] \div 2)

\* mercantile.quadkey_to_tile
quadkey_to_tile(q) == Tile(QuadkeyX[q, Len(q)], QuadkeyY[q, Len(q)], Len(q))

\* KubraScraper._get_quadkey_for_point: the tile of the zoom holding the point
Scale(n, zoom) ==
    IF zoom <= MAX_ZOOM THEN n \div (2 ^ (MAX_ZOOM - zoom)) ELSE n * (2 ^ (zoom - MAX_ZOOM))
_get_quadkey_for_point(point, zoom) ==
    quadkey(Tile(Scale(point.px, zoom), Scale(point.py, zoom), zoom))

\* KubraScraper._get_neighboring_quadkeys: N, E, S, W, NE, SE, NW, SW
_get_neighboring_quadkeys(q) ==
    LET tile == quadkey_to_tile(q) IN
      << quadkey(Tile(tile.x, tile.y - 1, tile.z)),
         quadkey(Tile(tile.x + 1, tile.y, tile.z)),
         quadkey(Tile(tile.x, tile.y + 1, tile.z)),
         quadkey(Tile(tile.x - 1, tile.y, tile.z)),
         quadkey(Tile(tile.x + 1, tile.y - 1, tile.z)),
         quadkey(Tile(tile.x + 1, tile.y + 1, tile.z)),
         quadkey(Tile(tile.x - 1, tile.y - 1, tile.z)),
         quadkey(Tile(tile.x - 1, tile.y + 1, tile.z)) >>

\* KubraScraper._get_quadkey_url: the path holds the last three digits
\* reversed, then the quadkey
_get_quadkey_url(q) ==
    LET n == Len(q) IN [qkh |-> <<q[n], q[n - 1], q[n - 2]>>, quadkey |-> q]

(***************************************************************************)
(* Raw tile entries and outage records.                                    *)
(***************************************************************************)
NoPoint == [px |-> 0, py |-> 0]

\* a resolvable incident of a tile document
Incident(inc_id, cause, n_out, point) ==
    [cluster |-> FALSE, inc_id |-> inc_id, cause |-> cause, n_out |-> n_out,
     p |-> point, start_time |-> 1]

\* a cluster marker of a tile document: no incident id
Cluster(n_out, point) ==
    [cluster |-> TRUE, inc_id |-> "", cause |-> "", n_out |-> n_out,
     p |-> point, start_time |-> 1]

\* KubraScraper._get_outage_info.  The id is the vendor's incident id, or
\* "<point>-<start time>" when there is none.
_get_outage_info(raw_outage, url) ==
    [id |-> IF raw_outage.inc_id = ""
            THEN [inc |-> "", p |-> raw_outage.p, t |-> raw_outage.start_time]
            ELSE [inc |-> raw_outage.inc_id, p |-> NoPoint, t |-> 0],
     cluster |-> raw_outage.cluster,
     cause |-> raw_outage.cause,
     numberOut |-> raw_outage.n_out,
     startTime |-> raw_outage.start_time,
     point |-> raw_outage.p,
     source |-> url]

(***************************************************************************)
(* Snapshots handed out by the pluggable fetch strategy (Scraper.fetch_data)*)
(***************************************************************************)
P0 == [px |-> 4323, py |-> 6310]
P1 == [px |-> 4324, py |-> 6310]

SampleUrl == _get_quadkey_url(_get_quadkey_for_point(P0, MIN_ZOOM))
RecA == _get_outage_info(Incident("a", "wind", 1, P0), SampleUrl)
RecA2 == _get_outage_info(Incident("a", "ice", 1, P0), SampleUrl)
RecB == _get_outage_info(Incident("b", "wind", 2, P1), SampleUrl)

Snapshots == {<< >>, <<RecA>>, <<RecA2>>, <<RecA, RecB>>, <<RecB, RecA>>}

(***************************************************************************)
(* The vendor tile API.  tiles maps a tile to its response; a tile outside *)
(* its domain has no document ("not found").                               *)
(***************************************************************************)
TileOk(entries) == [status |-> "ok", file_data |-> entries]
TileNotFound == [status |-> "not_found", file_data |-> << >>]
TileServerError == [status |-> "server_error", file_data |-> << >>]

\* requests.get(url) for a tile document
Response(q) ==
    IF quadkey_to_tile(q) \in DOMAIN tiles THEN tiles[quadkey_to_tile(q)] ELSE TileNotFound

\* res.ok: any status below 400
ResponseOk(res) == res.status = "ok"

(***************************************************************************)
(* The mapping `outages` of _fetch_data: a dict, kept as the sequence of   *)
(* its values in insertion order (each value holds its key, id).           *)
(***************************************************************************)
HasKey(d, id) == \E i \in DOMAIN d : d[i].id = id

\* d[info["id"]] = info: a present key keeps its place
DictSet(d, info) ==
    IF HasKey(d, info.id)
    THEN [i \in DOMAIN d |-> IF d[i].id = info.id THEN info ELSE d[i]]
    ELSE Append(d, info)

\* the callee's mapping assigned in place of the caller's
DictUpdate_Assign(d, other) == other

\* d.update(other)
RECURSIVE DictUpdate(_, _)
DictUpdate(d, other) ==
    IF other = << >> THEN d
    ELSE DictUpdate(DictSet(d, Head(other)), Tail(other))

RECURSIVE SumNumberOut(_)
SumNumberOut(records) ==
    IF records = << >> THEN 0
    ELSE Head(records).numberOut + SumNumberOut(Tail(records))

(***************************************************************************)
(* KubraScraper._fetch_data, with its call stack.  A frame holds the       *)
(* parameters and locals of one call: the quadkeys still to visit, zoom,   *)
(* cluster_search, the quadkey q being processed, the entries of its       *)
(* document still to process (the first one is the entry o at hand),       *)
(* the mapping outages, and the recursive call it waits for.               *)
(***************************************************************************)
Frame(quadkeys, zoom, cluster_search) ==
    [quadkeys |-> quadkeys, zoom |-> zoom, cluster_search |-> cluster_search,
     q |-> << >>, entries |-> << >>, outages |-> << >>, waiting |-> "none"]

Top == stack[Len(stack)]
ReplaceTop(frame) == [stack EXCEPT ![Len(stack)] = frame]
FrameDone(frame) == frame.quadkeys = << >> /\ frame.entries = << >> /\ frame.waiting = "none"

\* the visited set left as it was
MarkSeen_Forgets(seen, url) == seen

\* line 84: already_seen.add(url)
MarkSeen(seen, url) == seen \cup {url}

\* `continue` that does not move to the next quadkey
Remaining_Stuck(quadkeys) == quadkeys

\* line 79: the loop moves on to the next quadkey
Remaining(quadkeys) == Tail(quadkeys)

\* the limit taken one zoom too late
AtMaxZoom_Late(next_zoom) == next_zoom > MAX_ZOOM + 1

\* zooming in without a limit
AtMaxZoom_Never(next_zoom) == FALSE

\* line 99: next_zoom > MAX_ZOOM
AtMaxZoom(next_zoom) == next_zoom > MAX_ZOOM

\* the totals are not compared
TotalsMatch_Unchecked(number, expected) == TRUE

\* line 67: number_out != expected_outages raises
TotalsMatch(number, expected) == number = expected

\* fetch_data, lines 57-62: read the summary total and the service-area
\* quadkeys, call _fetch_data(quadkeys, set())
FetchDataStart ==
    /\ pc = "fetch"
    /\ tiles # << >>
    /\ pc' = "walk"
    /\ stack' = <<Frame(area_quadkeys, MIN_ZOOM, FALSE)>>
    /\ already_seen' = {}
    /\ fetch_log' = << >>
    /\ skipped' = {}
    /\ number_out' = 0
    /\ UNCHANGED <<test_mode, github_token, last_data, last_sha, outcome, err, data, message,
                   passes, write_vars, store_vars, tiles, expected_outages, area_quadkeys,
                   delta_vars>>

\* _fetch_data, lines 79-92: the next quadkey of the loop: skipped when its
\* URL was seen, else marked seen and fetched; a response that is not ok is
\* taken for "no outages in the area"
NextQuadkey ==
    /\ pc = "walk"
    /\ Top.waiting = "none"
    /\ Top.entries = << >>
    /\ Top.quadkeys # << >>
    /\ LET q == Head(Top.quadkeys)
           url == _get_quadkey_url(q)
           res == Response(q)
       IN IF url \in already_seen
          THEN /\ skipped' = skipped \cup {url}
               /\ stack' = ReplaceTop([Top EXCEPT !.quadkeys = Remaining(@)])
               /\ UNCHANGED <<already_seen, fetch_log>>
          ELSE /\ already_seen' = MarkSeen(already_seen, url)
               /\ fetch_log' = Append(fetch_log, url)
               /\ UNCHANGED skipped
               /\ IF ~ResponseOk(res)
                  THEN stack' = ReplaceTop([Top EXCEPT !.quadkeys = Remaining(@)])
                  ELSE stack' = ReplaceTop([Top EXCEPT !.quadkeys = Remaining(@),
                                                       !.q = q,
                                                       !.entries = res.file_data])
    /\ UNCHANGED <<scraper_vars, write_vars, store_vars, tiles, expected_outages,
                   area_quadkeys, number_out, delta_vars>>

\* _fetch_data, lines 94-120: the next entry o of the tile document: a cluster
\* at the last zoom is recorded, a cluster above it is zoomed into, an
\* incident starts the search of the eight neighbours
NextEntry ==
    /\ pc = "walk"
    /\ Top.waiting = "none"
    /\ Top.entries # << >>
    /\ LET o == Head(Top.entries)
           url == _get_quadkey_url(Top.q)
           next_zoom == Top.zoom + 1
       IN IF o.cluster
          THEN IF AtMaxZoom(next_zoom)
               THEN stack' = ReplaceTop([Top EXCEPT
                                 !.outages = DictSet(@, _get_outage_info(o, url)),
                                 !.entries = Tail(@)])
               ELSE stack' = Append(ReplaceTop([Top EXCEPT !.waiting = "zoom"]),
                                    Frame(<<_get_quadkey_for_point(o.p, next_zoom)>>,
                                          next_zoom, TRUE))
          ELSE stack' = Append(ReplaceTop([Top EXCEPT !.waiting = "neighbors"]),
                               Frame(_get_neighboring_quadkeys(Top.q), Top.zoom, FALSE))
    /\ UNCHANGED <<scraper_vars, write_vars, store_vars, tiles, expected_outages,
                   area_quadkeys, already_seen, fetch_log, skipped, number_out, delta_vars>>

\* _fetch_data, line 125, and the caller's lines 105 / 116-123: a recursive
\* call returns its mapping, the caller merges it; after the neighbour
\* search the incident itself is recorded
ReturnFrame ==
    /\ pc = "walk"
    /\ Len(stack) > 1
    /\ FrameDone(Top)
    /\ LET caller == stack[Len(stack) - 1]
           o == Head(caller.entries)
           url == _get_quadkey_url(caller.q)
           merged == DictUpdate(caller.outages, Top.outages)
           result == IF caller.waiting = "neighbors"
                     THEN DictSet(merged, _get_outage_info(o, url))
                     ELSE merged
       IN stack' = Append(SubSeq(stack, 1, Len(stack) - 2),
                          [caller EXCEPT !.outages = result,
                                         !.entries = Tail(@),
                                         !.waiting = "none"])
    /\ UNCHANGED <<scraper_vars, write_vars, store_vars, tiles, expected_outages,
                   area_quadkeys, already_seen, fetch_log, skipped, number_out, delta_vars>>

(***************************************************************************)
(* Content encodings.  json.dumps(..).encode("utf8") yields bytes; the     *)
(* contents API carries them base64-encoded; a download_url answer is read *)
(* through .text, a str.  json.loads accepts both.                         *)
(***************************************************************************)
JsonDumpsBytes(d) == [kind |-> "bytes", json |-> d]
ResponseText(b) == [kind |-> "str", json |-> b.json]
B64Encode(b) == [b64 |-> b]
B64Decode(e) == e.b64
JsonLoads(c) == c.json

\* Python truthiness of Scraper.last_data: None and [] are falsy.
Truthy(o) == IsSome(o) /\ Get(o) # << >>

(***************************************************************************)
(* The remote content store (GitHub): blobs, commits, one branch ref.      *)
(* A commit's tree is reduced to the blob sha stored at the scraper's      *)
(* filepath (0: the path is absent).                                       *)
(***************************************************************************)
CommitSha(i) == 100 + i
CommitIndex(sha) == sha - 100

\* sha of the document at filepath on the branch (0: absent)
DocSha == commits[ref].tree
DocExists == DocSha # 0

\* Blobs are content-addressed: equal content, equal sha.
BlobSha(bs, content) ==
    IF \E i \in 1..Len(bs) : bs[i] = content
    THEN CHOOSE i \in 1..Len(bs) : bs[i] = content
    ELSE Len(bs) + 1
PutBlob(bs, content) ==
    IF \E i \in 1..Len(bs) : bs[i] = content THEN bs ELSE Append(bs, content)

\* The direct endpoints refuse documents above a size limit.
Large(d) == Len(d) > 1

(***************************************************************************)
(* GithubContents.read / read_large.  A response scenario of the remote    *)
(* store is mapped to what read() returns or raises.                       *)
(***************************************************************************)
ReadResponses ==
    {"forbidden", "forbidden_nocode", "server_error"}
    \cup (IF DocExists
          THEN {"download"} \cup
               (IF Large(blobs[DocSha].json)
                THEN {"large_found", "large_missing", "large_tree_error", "large_blob_error"}
                ELSE {"inline"})
          ELSE {"not_found"})

ReadOk(content, sha) == [status |-> "ok", content |-> Some(content), sha |-> sha]
ReadRaise(e) == [status |-> e, content |-> None, sha |-> 0]

read_large(resp) ==
    CASE resp = "large_found" -> ReadOk(B64Decode(B64Encode(blobs[DocSha])), DocSha)
      [] resp = "large_missing" -> ReadRaise("NotFound")
      [] OTHER -> ReadRaise("KeyError")

read(resp) ==
    CASE resp = "inline" -> ReadOk(B64Decode(B64Encode(blobs[DocSha])), DocSha)
      [] resp = "download" -> ReadOk(ResponseText(blobs[DocSha]), DocSha)
      [] resp = "not_found" -> ReadRaise("NotFound")
      [] resp = "forbidden" -> ReadRaise("UnknownError")
      [] resp = "forbidden_nocode" -> ReadRaise("KeyError")
      [] resp = "server_error" -> ReadRaise("UnknownError")
      [] OTHER -> read_large(resp)

(***************************************************************************)
(* How a pass ends.                                                        *)
(***************************************************************************)
\* scrape_and_store returns without writing
EndPass(how) ==
    /\ pc' = "idle"
    /\ outcome' = how
    /\ err' = ""
    /\ UNCHANGED <<last_data, last_sha>>

\* an exception leaves scrape_and_store
Raise(e) ==
    /\ pc' = "idle"
    /\ outcome' = "error"
    /\ err' = e
    /\ UNCHANGED <<last_data, last_sha>>

\* the commit sha kept as the version token of the document
WriteReturned_CommitToken(content_sha, commit_sha) ==
    /\ returned' = Some(<<content_sha, commit_sha>>)
    /\ last_sha' = commit_sha
    /\ last_data' = data
    /\ pc' = "idle"
    /\ outcome' = "written"
    /\ err' = ""

\* github.write returned (content_sha, commit_sha): lines 236-238
WriteReturned(content_sha, commit_sha) ==
    /\ returned' = Some(<<content_sha, commit_sha>>)
    /\ last_sha' = content_sha
    /\ last_data' = data
    /\ pc' = "idle"
    /\ outcome' = "written"
    /\ err' = ""

Call(op, sha, status) == [op |-> op, sha |-> sha, status |-> status]

\* NotFound not caught: the exception of read() leaves scrape_and_store
LoadPrior_NotFoundFatal ==
    /\ pc = "idle"
    /\ passes < MaxPasses
    /\ passes' = passes + 1
    /\ baseline' = [ref |-> ref, doc |-> DocSha]
    /\ calls' = << >>
    /\ returned' = None
    /\ data' = None
    /\ message' = ""
    /\ w_sha' = 0
    /\ created_blob' = 0
    /\ default_branch_sha' = 0
    /\ created_tree' = None
    /\ created_commit' = 0
    /\ IF Truthy(last_data) /\ last_sha # 0
       THEN /\ pc' = "fetch"
            /\ outcome' = "running"
            /\ err' = ""
            /\ UNCHANGED <<last_data, last_sha>>
       ELSE \E resp \in ReadResponses :
              LET r == read(resp) IN
                CASE r.status = "ok" ->
                       /\ last_data' = Some(JsonLoads(Get(r.content)))
                       /\ last_sha' = r.sha
                       /\ pc' = "fetch"
                       /\ outcome' = "running"
                       /\ err' = ""
                  [] OTHER -> Raise(r.status)
    /\ UNCHANGED <<test_mode, github_token, blobs, commits, ref, externals, kubra_vars, delta_vars>>

(***************************************************************************)
(* Scraper.scrape_and_store, lines 191-200: LoadPrior.                     *)
(***************************************************************************)
LoadPrior ==
    /\ pc = "idle"
    /\ passes < MaxPasses
    /\ passes' = passes + 1
    /\ baseline' = [ref |-> ref, doc |-> DocSha]
    /\ calls' = << >>
    /\ returned' = None
    /\ data' = None
    /\ message' = ""
    /\ w_sha' = 0
    /\ created_blob' = 0
    /\ default_branch_sha' = 0
    /\ created_tree' = None
    /\ created_commit' = 0
    /\ IF Truthy(last_data) /\ last_sha # 0
       THEN /\ pc' = "fetch"
            /\ outcome' = "running"
            /\ err' = ""
            /\ UNCHANGED <<last_data, last_sha>>
       ELSE \E resp \in ReadResponses :
              LET r == read(resp) IN
                CASE r.status = "ok" ->
                       /\ last_data' = Some(JsonLoads(Get(r.content)))
                       /\ last_sha' = r.sha
                       /\ pc' = "fetch"
                       /\ outcome' = "running"
                       /\ err' = ""
                  [] r.status = "NotFound" ->
                       /\ last_data' = None
                       /\ last_sha' = 0
                       /\ pc' = "fetch"
                       /\ outcome' = "running"
                       /\ err' = ""
                  [] OTHER -> Raise(r.status)
    /\ UNCHANGED <<test_mode, github_token, blobs, commits, ref, externals, kubra_vars, delta_vars>>

\* a comparison by object identity: a freshly fetched list is never the prior one
SnapshotsEqual_Identity(a, b) == FALSE

\* line 211: self.last_data == data, Python equality of None / lists of dicts
SnapshotsEqual(a, b) == a = b

\* the None check of line 203 left out: None goes on to the comparison
AfterFetch_NoneCompared(d) ==
    /\ data' = d
    /\ IF test_mode /\ ~github_token
       THEN EndPass("printed") /\ UNCHANGED <<message, w_sha>>
       ELSE IF SnapshotsEqual(last_data, d)
       THEN EndPass("nochange") /\ UNCHANGED <<message, w_sha>>
       ELSE /\ message' = (IF last_sha # 0 THEN "Updated" ELSE "Created")
            /\ IF test_mode
               THEN EndPass("dryrun") /\ UNCHANGED w_sha
               ELSE /\ pc' = "put"
                    /\ w_sha' = last_sha
                    /\ UNCHANGED <<last_data, last_sha, outcome, err>>

\* the test-mode return before the write left out
AfterFetch_NoDryRun(d) ==
    /\ data' = d
    /\ IF d = None
       THEN EndPass("nodata") /\ UNCHANGED <<message, w_sha>>
       ELSE IF test_mode /\ ~github_token
       THEN EndPass("printed") /\ UNCHANGED <<message, w_sha>>
       ELSE IF SnapshotsEqual(last_data, d)
       THEN EndPass("nochange") /\ UNCHANGED <<message, w_sha>>
       ELSE /\ message' = (IF last_sha # 0 THEN "Updated" ELSE "Created")
            /\ pc' = "put"
            /\ w_sha' = last_sha
            /\ UNCHANGED <<last_data, last_sha, outcome, err>>

(***************************************************************************)
(* Scraper.scrape_and_store, lines 203-226: what follows fetch_data() up   *)
(* to the call of github.write.  d is the value fetch_data returned.       *)
(***************************************************************************)
AfterFetch(d) ==
    /\ data' = d
    /\ IF d = None
       THEN EndPass("nodata") /\ UNCHANGED <<message, w_sha>>
       ELSE IF test_mode /\ ~github_token
       THEN EndPass("printed") /\ UNCHANGED <<message, w_sha>>
       ELSE IF SnapshotsEqual(last_data, d)
       THEN EndPass("nochange") /\ UNCHANGED <<message, w_sha>>
       ELSE /\ message' = (IF last_sha # 0 THEN "Updated" ELSE "Created")
            /\ IF test_mode
               THEN EndPass("dryrun") /\ UNCHANGED w_sha
               ELSE /\ pc' = "put"
                    /\ w_sha' = last_sha
                    /\ UNCHANGED <<last_data, last_sha, outcome, err>>

\* Scraper.fetch_data is the pluggable fetch strategy: it returns None, a
\* list of records, or raises.
Fetch ==
    /\ pc = "fetch"
    /\ \/ \E d \in {None} \cup {Some(s) : s \in Snapshots} : AfterFetch(d)
       \/ Raise("ResolutionMismatch") /\ UNCHANGED <<data, message, w_sha>>
    /\ UNCHANGED <<test_mode, github_token, passes, created_blob, default_branch_sha,
                   created_tree, created_commit, calls, returned, store_vars, kubra_vars, delta_vars>>

(***************************************************************************)
(* GithubContents.write, lines 78-104: one direct submission (PUT).        *)
(***************************************************************************)
PutResponses ==
    {"forbidden", "forbidden_nocode", "unprocessable", "server_error"}
    \cup (IF Large(Get(data)) THEN {"too_large"}
          ELSE IF w_sha = DocSha THEN {IF DocExists THEN "updated" ELSE "created"}
          ELSE {})
    \cup (IF w_sha # DocSha THEN {"sha_required"} ELSE {})
    \cup (IF w_sha # DocSha /\ w_sha # 0 THEN {"conflict"} ELSE {})

\* status 200 (an update) taken for a failure
WriteBranch_Only201(resp, sha) ==
    CASE resp = "too_large" -> "write_large"
      [] resp = "forbidden_nocode" -> "KeyError"
      [] resp = "sha_required" /\ sha = 0 -> "retry"
      [] resp = "created" -> "return"
      [] OTHER -> "UnknownError"

\* the retry taken whether or not a sha was supplied
WriteBranch_RetryAlways(resp, sha) ==
    CASE resp = "too_large" -> "write_large"
      [] resp = "forbidden_nocode" -> "KeyError"
      [] resp = "sha_required" -> "retry"
      [] resp \in {"created", "updated"} -> "return"
      [] OTHER -> "UnknownError"

\* the retry taken on a version conflict too
WriteBranch_RetryOnConflict(resp, sha) ==
    CASE resp = "too_large" -> "write_large"
      [] resp = "forbidden_nocode" -> "KeyError"
      [] resp = "sha_required" /\ sha = 0 -> "retry"
      [] resp = "conflict" -> "retry"
      [] resp \in {"created", "updated"} -> "return"
      [] OTHER -> "UnknownError"

\* the branch of write() taken on a response (lines 79-104); "created" is
\* status 201, "updated" status 200
WriteBranch(resp, sha) ==
    CASE resp = "too_large" -> "write_large"
      [] resp = "forbidden_nocode" -> "KeyError"
      [] resp = "sha_required" /\ sha = 0 -> "retry"
      [] resp \in {"created", "updated"} -> "return"
      [] OTHER -> "UnknownError"

DirectPut ==
    /\ pc = "put"
    /\ \E resp \in PutResponses :
         LET content == B64Decode(B64Encode(JsonDumpsBytes(Get(data))))
             branch == WriteBranch(resp, w_sha)
         IN /\ calls' = Append(calls, Call("put", w_sha, resp))
            /\ IF resp \in {"created", "updated"}
               THEN /\ blobs' = PutBlob(blobs, content)
                    /\ commits' = Append(commits, [tree |-> BlobSha(blobs, content),
                                                   parent |-> CommitSha(ref), by |-> "self"])
                    /\ ref' = Len(commits) + 1
               ELSE UNCHANGED <<blobs, commits, ref>>
            /\ CASE branch = "write_large" ->
                      /\ pc' = "blob"
                      /\ UNCHANGED <<last_data, last_sha, outcome, err, returned>>
                 [] branch = "retry" ->
                      /\ pc' = "reread"
                      /\ UNCHANGED <<last_data, last_sha, outcome, err, returned>>
                 [] branch = "return" ->
                      WriteReturned(BlobSha(blobs, content), CommitSha(Len(commits) + 1))
                 [] OTHER ->
                      /\ Raise(branch)
                      /\ UNCHANGED returned
    /\ UNCHANGED <<test_mode, github_token, data, message, passes, w_sha, created_blob,
                   default_branch_sha, created_tree, created_commit, externals, baseline,
                   kubra_vars, delta_vars>>

\* GithubContents.write, lines 89-97: read the current sha, call write again with it
RetryRead ==
    /\ pc = "reread"
    /\ \E resp \in ReadResponses :
         LET r == read(resp) IN
           /\ calls' = Append(calls, Call("read", r.sha, r.status))
           /\ IF r.status = "ok"
              THEN /\ w_sha' = r.sha
                   /\ pc' = "put"
                   /\ UNCHANGED <<last_data, last_sha, outcome, err>>
              ELSE Raise(r.status) /\ UNCHANGED w_sha
    /\ UNCHANGED <<test_mode, github_token, data, message, passes, created_blob,
                   default_branch_sha, created_tree, created_commit, returned, store_vars,
                   kubra_vars, delta_vars>>

(***************************************************************************)
(* GithubContents.write_large, lines 106-156: five requests.  A response   *)
(* is "ok", "rejected" (an error status with a JSON body, which .json()    *)
(* parses and the code does not look at) or "garbled" (an error whose body *)
(* is not JSON: .json() raises).                                           *)
(***************************************************************************)
StepResponses == {"ok", "rejected", "garbled"}

\* lines 110-117: create a blob with the file contents
CreateBlob ==
    /\ pc = "blob"
    /\ \E resp \in StepResponses :
         LET content == B64Decode(B64Encode(JsonDumpsBytes(Get(data)))) IN
           /\ calls' = Append(calls, Call("create_blob", 0, resp))
           /\ CASE resp = "ok" ->
                     /\ blobs' = PutBlob(blobs, content)
                     /\ created_blob' = BlobSha(blobs, content)
                     /\ pc' = "tree_get"
                     /\ UNCHANGED <<last_data, last_sha, outcome, err>>
                [] resp = "rejected" ->
                     /\ created_blob' = 0
                     /\ pc' = "tree_get"
                     /\ UNCHANGED <<blobs, last_data, last_sha, outcome, err>>
                [] OTHER ->
                     /\ Raise("JSONDecodeError")
                     /\ UNCHANGED <<blobs, created_blob>>
    /\ UNCHANGED <<test_mode, github_token, data, message, passes, w_sha, default_branch_sha,
                   created_tree, created_commit, returned, commits, ref, externals, baseline,
                   kubra_vars, delta_vars>>

\* lines 119-122: retrieve the sha of the tree listing at the branch
GetTree ==
    /\ pc = "tree_get"
    /\ \E resp \in StepResponses :
           /\ calls' = Append(calls, Call("get_tree", CommitSha(ref), resp))
           /\ CASE resp = "ok" ->
                     /\ default_branch_sha' = CommitSha(ref)
                     /\ pc' = "tree_post"
                     /\ UNCHANGED <<last_data, last_sha, outcome, err>>
                [] resp = "rejected" ->
                     /\ Raise("KeyError")
                     /\ UNCHANGED default_branch_sha
                [] OTHER ->
                     /\ Raise("JSONDecodeError")
                     /\ UNCHANGED default_branch_sha
    /\ UNCHANGED <<test_mode, github_token, data, message, passes, w_sha, created_blob,
                   created_tree, created_commit, returned, store_vars, kubra_vars, delta_vars>>

\* lines 124-138: construct a new tree: base_tree plus the one path entry
CreateTree ==
    /\ pc = "tree_post"
    /\ IF created_blob = 0
       THEN \* created_blob["sha"]: the rejected blob response holds no sha
            /\ Raise("KeyError")
            /\ UNCHANGED <<calls, created_tree>>
       ELSE \E resp \in StepResponses :
              /\ calls' = Append(calls, Call("create_tree", default_branch_sha, resp))
              /\ CASE resp = "ok" ->
                        /\ created_tree' = Some(created_blob)
                        /\ pc' = "commit_post"
                        /\ UNCHANGED <<last_data, last_sha, outcome, err>>
                   [] resp = "rejected" ->
                        /\ created_tree' = None
                        /\ pc' = "commit_post"
                        /\ UNCHANGED <<last_data, last_sha, outcome, err>>
                   [] OTHER ->
                        /\ Raise("JSONDecodeError")
                        /\ UNCHANGED created_tree
    /\ UNCHANGED <<test_mode, github_token, data, message, passes, w_sha, created_blob,
                   default_branch_sha, created_commit, returned, store_vars, kubra_vars, delta_vars>>

\* a root commit: no parent given
CommitPayload_NoParent == [tree |-> Get(created_tree), parent |-> 0, by |-> "self"]

\* lines 140-144: the commit's parent is the sha the tree listing answered
CommitPayload == [tree |-> Get(created_tree), parent |-> default_branch_sha, by |-> "self"]

\* lines 140-149: create a commit which references the new tree
CreateCommit ==
    /\ pc = "commit_post"
    /\ IF created_tree = None
       THEN \* created_tree["sha"]: the rejected tree response holds no sha
            /\ Raise("KeyError")
            /\ UNCHANGED <<calls, created_commit, commits>>
       ELSE \E resp \in StepResponses :
              /\ calls' = Append(calls, Call("create_commit", CommitPayload.parent, resp))
              /\ CASE resp = "ok" ->
                        /\ commits' = Append(commits, CommitPayload)
                        /\ created_commit' = CommitSha(Len(commits) + 1)
                        /\ pc' = "ref_patch"
                        /\ UNCHANGED <<last_data, last_sha, outcome, err>>
                   [] resp = "rejected" ->
                        /\ created_commit' = 0
                        /\ pc' = "ref_patch"
                        /\ UNCHANGED <<commits, last_data, last_sha, outcome, err>>
                   [] OTHER ->
                        /\ Raise("JSONDecodeError")
                        /\ UNCHANGED <<created_commit, commits>>
    /\ UNCHANGED <<test_mode, github_token, data, message, passes, w_sha, created_blob,
                   default_branch_sha, created_tree, returned, blobs, ref, externals,
                   baseline, kubra_vars, delta_vars>>

\* The store moves a ref only forward: the new commit must descend from the tip.
PatchResponses ==
    {"rejected", "garbled"}
    \cup (IF commits[CommitIndex(created_commit)].parent = CommitSha(ref) THEN {"ok"} ELSE {})

\* lines 151-156: what write_large does with the response of the PATCH: the
\* parsed body is dropped, the status is not looked at
PatchBranch(resp) ==
    IF resp = "garbled" THEN "JSONDecodeError" ELSE "return"

\* lines 151-156: move the branch ref to the new commit, return both shas
MoveRef ==
    /\ pc = "ref_patch"
    /\ IF created_commit = 0
       THEN \* created_commit["sha"]: the rejected commit response holds no sha
            /\ Raise("KeyError")
            /\ UNCHANGED <<calls, ref, returned>>
       ELSE \E resp \in PatchResponses :
              /\ calls' = Append(calls, Call("patch_ref", created_commit, resp))
              /\ ref' = (IF resp = "ok" THEN CommitIndex(created_commit) ELSE ref)
              /\ IF PatchBranch(resp) = "return"
                 THEN WriteReturned(created_blob, created_commit)
                 ELSE Raise(PatchBranch(resp)) /\ UNCHANGED returned
    /\ UNCHANGED <<test_mode, github_token, data, message, passes, w_sha, created_blob,
                   default_branch_sha, created_tree, created_commit, blobs, commits,
                   externals, baseline, kubra_vars, delta_vars>>

(***************************************************************************)
(* Another writer commits to the same path of the same branch (a new       *)
(* document, or its deletion).                                             *)
(***************************************************************************)
ExternalDocs == {<<RecB>>, <<RecA, RecB>>}

ExternalCommit ==
    /\ externals < MaxExternal
    /\ externals' = externals + 1
    /\ \E d \in {None} \cup {Some(JsonDumpsBytes(s)) : s \in ExternalDocs} :
         LET sha == IF d = None THEN 0 ELSE BlobSha(blobs, Get(d)) IN
           /\ sha # DocSha
           /\ blobs' = (IF d = None THEN blobs ELSE PutBlob(blobs, Get(d)))
           /\ commits' = Append(commits, [tree |-> sha, parent |-> CommitSha(ref),
                                          by |-> "other"])
           /\ ref' = Len(commits) + 1
           /\ baseline' = [ref |-> Len(commits) + 1, doc |-> sha]
    /\ UNCHANGED <<scraper_vars, write_vars, kubra_vars, delta_vars>>

(***************************************************************************)
(* The orchestrator over the pluggable fetch strategy.                     *)
(***************************************************************************)
InitStore ==
    /\ test_mode \in BOOLEAN
    /\ github_token \in BOOLEAN
    /\ last_data = None
    /\ last_sha = 0
    /\ pc = "idle"
    /\ outcome = "init"
    /\ err = ""
    /\ data = None
    /\ message = ""
    /\ passes = 0
    /\ w_sha = 0
    /\ created_blob = 0
    /\ default_branch_sha = 0
    /\ created_tree = None
    /\ created_commit = 0
    /\ calls = << >>
    /\ returned = None
    /\ externals = 0
    /\ ref = 1
    /\ \E d \in {None} \cup {Some(JsonDumpsBytes(s)) : s \in Snapshots} :
         /\ blobs = (IF d = None THEN << >> ELSE <<Get(d)>>)
         /\ commits = <<[tree |-> (IF d = None THEN 0 ELSE 1), parent |-> 0, by |-> "other"]>>
         /\ baseline = [ref |-> 1, doc |-> (IF d = None THEN 0 ELSE 1)]

InitNoKubra ==
    /\ tiles = << >>
    /\ expected_outages = 0
    /\ area_quadkeys = << >>
    /\ stack = << >>
    /\ already_seen = {}
    /\ fetch_log = << >>
    /\ skipped = {}
    /\ number_out = 0

\* the base Scraper builds its messages without a delta
NoDelta == [added_ids |-> << >>, removed_ids |-> << >>, changed_records |-> << >>]

InitNoDelta ==
    /\ show_changes = FALSE
    /\ source_url = None
    /\ delta = NoDelta

Init == InitStore /\ InitNoKubra /\ InitNoDelta

Next ==
    \/ LoadPrior
    \/ Fetch
    \/ DirectPut
    \/ RetryRead
    \/ CreateBlob
    \/ GetTree
    \/ CreateTree
    \/ CreateCommit
    \/ MoveRef
    \/ ExternalCommit

Spec == Init /\ [][Next]_vars

(***************************************************************************)
(* The orchestrator over KubraScraper.fetch_data.                          *)
(***************************************************************************)
\* fetch_data, lines 62-70: the outermost _fetch_data call returned; sum
\* numberOut, raise on a mismatch with the vendor's total, else return the
\* list of outages to scrape_and_store
FetchDataFinish ==
    /\ pc = "walk"
    /\ Len(stack) = 1
    /\ FrameDone(Top)
    /\ stack' = << >>
    /\ number_out' = SumNumberOut(Top.outages)
    /\ IF TotalsMatch(SumNumberOut(Top.outages), expected_outages)
       THEN AfterFetch(Some(Top.outages))
       ELSE Raise("ResolutionMismatch") /\ UNCHANGED <<data, message, w_sha>>
    /\ UNCHANGED <<test_mode, github_token, passes, created_blob, default_branch_sha,
                   created_tree, created_commit, calls, returned, store_vars, tiles,
                   expected_outages, area_quadkeys, already_seen, fetch_log, skipped,
                   delta_vars>>

\* the tile of a zoom holding the point P0, and its eastern neighbour
PathTile(z) == quadkey_to_tile(_get_quadkey_for_point(P0, z))
East(t) == Tile(t.x + 1, t.y, t.z)

IncidentA == Incident("a", "wind", 1, P0)
IncidentA2 == Incident("a", "wind", 2, P0)
IncidentB == Incident("b", "tree", 2, P1)

BottomResponses ==
    {TileNotFound, TileServerError, TileOk(<<IncidentA>>), TileOk(<<IncidentA, IncidentB>>),
     TileOk(<<Cluster(2, P0)>>), TileOk(<<IncidentA, Cluster(2, P0)>>)}

EastResponses ==
    {TileNotFound, TileOk(<<IncidentB>>), TileOk(<<IncidentA2>>), TileOk(<<Cluster(1, P1)>>)}

\* k zoom levels of clusters above a bottom tile and its eastern neighbour
World(k, bottom, east) ==
    [t \in {PathTile(z) : z \in MIN_ZOOM..(MIN_ZOOM + k)} \cup {East(PathTile(MIN_ZOOM + k))} |->
        IF t = East(PathTile(MIN_ZOOM + k)) THEN east
        ELSE IF t.z = MIN_ZOOM + k THEN bottom
        ELSE TileOk(<<Cluster(2, P0)>>)]

InitKubra ==
    /\ InitStore
    /\ InitNoDelta
    /\ ~test_mode
    /\ github_token
    /\ ~DocExists
    /\ \E k \in 0..(MAX_ZOOM - MIN_ZOOM), bottom \in BottomResponses, east \in EastResponses :
         tiles = World(k, bottom, east)
    /\ expected_outages \in 0..MaxTotal
    /\ area_quadkeys \in {<<quadkey(PathTile(MIN_ZOOM))>>,
                          <<quadkey(PathTile(MIN_ZOOM)), quadkey(East(PathTile(MIN_ZOOM)))>>}
    /\ stack = << >>
    /\ already_seen = {}
    /\ fetch_log = << >>
    /\ skipped = {}
    /\ number_out = 0

Walk ==
    \/ FetchDataStart
    \/ NextQuadkey
    \/ NextEntry
    \/ ReturnFrame
    \/ FetchDataFinish

\* The scraper is the only writer of its document here, so the write never
\* meets a document it has no sha for and its re-read (RetryRead) never starts.
NextKubra ==
    \/ LoadPrior
    \/ Walk
    \/ DirectPut
    \/ CreateBlob
    \/ GetTree
    \/ CreateTree
    \/ CreateCommit
    \/ MoveRef

SpecKubra == InitKubra /\ [][NextKubra]_vars

\* The resolution pass alone; the interpreter always takes the next step of
\* the sequential walk and every tile request is answered.
NextWalk ==
    \/ LoadPrior
    \/ Walk

SpecWalk == InitKubra /\ [][NextWalk]_vars /\ WF_vars(Walk)

(***************************************************************************)
(* DeltaScraper (src/base_scraper.py, lines 241-348).  A record is a dict, *)
(* kept as a function from its keys to values (all strings here); a dict   *)
(* iterates its keys in insertion order, which is the order of FieldOrder  *)
(* for every record.  A text is a sequence of lines; a line is a record    *)
(* holding the values that were formatted into it.                         *)
(***************************************************************************)
MaxRecords == 2

record_key == "id"
FieldOrder == <<"id", "cause", "crew">>
SortedFields == <<"cause", "crew", "id">>
PyNone == "None"

\* the keys of a dict, in iteration order
DictKeys(record) == SelectSeq(FieldOrder, LAMBDA k : k \in DOMAIN record)

\* record.get(key)
DictGet(record, key) == IF key \in DOMAIN record THEN record[key] ELSE PyNone

\* json.dumps(record, sort_keys=True): the items in the order of their keys
JsonDumpsSorted(record) ==
    LET keys == SelectSeq(SortedFields, LAMBDA k : k \in DOMAIN record)
    IN [i \in DOMAIN keys |-> <<keys[i], record[keys[i]]>>]

\* [r for r in records if r[record_key] == id][0], or nothing (IndexError)
RECURSIVE FirstWithKey(_, _)
FirstWithKey(records, id) ==
    IF records = << >> THEN << >>
    ELSE IF Head(records)[record_key] = id THEN <<Head(records)>>
    ELSE FirstWithKey(Tail(records), id)

InList(xs, x) == \E i \in DOMAIN xs : xs[i] = x

\* the old records left out of the comparison
previous_ids_Empty(old_records) == << >>

\* lines 282-283
previous_ids(old_records) == [i \in DOMAIN old_records |-> old_records[i][record_key]]
current_ids(new_records) == [i \in DOMAIN new_records |-> new_records[i][record_key]]

\* line 284: [id for id in current_ids if id not in previous_ids]
added_ids(old_records, new_records) ==
    SelectSeq(current_ids(new_records), LAMBDA id : ~InList(previous_ids(old_records), id))

\* line 285: [id for id in previous_ids if id not in current_ids]
removed_ids(old_records, new_records) ==
    SelectSeq(previous_ids(old_records), LAMBDA id : ~InList(current_ids(new_records), id))

\* the comparison of the two records of a pair by object identity
RecordChanged_Never(old_record, new_record) == FALSE

\* line 313: the serializations with sorted keys differ
RecordChanged(old_record, new_record) ==
    JsonDumpsSorted(old_record) # JsonDumpsSorted(new_record)

\* lines 307-314: for each new record, the first old record of its key, kept
\* as a pair when the two differ
RECURSIVE changed_records(_, _)
changed_records(old_records, new_records) ==
    IF new_records = << >> THEN << >>
    ELSE LET new_record == Head(new_records)
             found == FirstWithKey(old_records, new_record[record_key])
             rest == changed_records(old_records, Tail(new_records))
         IN IF found # << >> /\ RecordChanged(found[1], new_record)
            THEN <<[old |-> found[1], new |-> new_record]>> \o rest
            ELSE rest

\* lines 250-252 and 258-260: noun, and noun_plural with plural = None
noun == "record"
noun_plural == "records"
NounFor(n) == IF n = 1 THEN noun ELSE noun_plural

EmptyLine == [kind |-> "empty"]

\* "\n".join(parts) of one-line parts: no part gives the empty string
JoinLines(parts) == IF parts = << >> THEN <<EmptyLine>> ELSE parts

\* str.strip() of a text: the empty lines at its two ends go
RECURSIVE Strip(_)
Strip(text) ==
    IF text = << >> THEN << >>
    ELSE IF Head(text) = EmptyLine THEN Strip(Tail(text))
    ELSE IF text[Len(text)] = EmptyLine THEN Strip(SubSeq(text, 1, Len(text) - 1))
    ELSE text

\* lines 262-266: one line "key = value" for each item
display_record(record) ==
    JoinLines([i \in DOMAIN DictKeys(record) |->
                 [kind |-> "pair", key |-> DictKeys(record)[i],
                  value |-> record[DictKeys(record)[i]]]])

\* lines 268-275: one line "key: prev => next" for each key of the OLD record
\* whose value differs from new_record.get(key)
display_changes(old_record, new_record) ==
    LET keys == SelectSeq(DictKeys(old_record),
                          LAMBDA k : old_record[k] # DictGet(new_record, k))
    IN JoinLines([i \in DOMAIN keys |->
                    [kind |-> "change", key |-> keys[i], prev |-> old_record[keys[i]],
                     next |-> DictGet(new_record, keys[i])]])

\* the texts of a list of texts, one after the other ("\n".join)
RECURSIVE Concat(_)
Concat(texts) == IF texts = << >> THEN << >> ELSE Head(texts) \o Concat(Tail(texts))

Header(what, n) == [kind |-> "header", what |-> what, count |-> n, noun |-> NounFor(n)]

\* lines 288-294: the block of the added records
AddedBlock(old_records, new_records) ==
    LET ids == added_ids(old_records, new_records) IN
      <<Header("new", Len(ids))>>
      \o Concat([i \in DOMAIN ids |-> display_record(FirstWithKey(new_records, ids[i])[1])])

\* lines 296-304: the block of the removed records
RemovedBlock(old_records, new_records) ==
    LET ids == removed_ids(old_records, new_records) IN
      <<Header("removed", Len(ids))>>
      \o Concat([i \in DOMAIN ids |-> display_record(FirstWithKey(old_records, ids[i])[1])])

\* lines 316-323: the block of the changed records; its header counts
\* removed_ids
ChangedBlock(old_records, new_records) ==
    LET pairs == changed_records(old_records, new_records) IN
      <<Header("changed", Len(removed_ids(old_records, new_records)))>>
      \o Concat([i \in DOMAIN pairs |-> display_changes(pairs[i].old, pairs[i].new)])

\* the changed block rendered whatever show_changes is
ShowsChanged_Always(pairs) == pairs # << >>

\* line 316: if self.show_changes and changed_records
ShowsChanged(pairs) == show_changes /\ pairs # << >>

\* lines 288-329: the blocks of the body, each stripped, and "Detected on"
message_blocks(old_records, new_records) ==
    (IF added_ids(old_records, new_records) # << >>
     THEN <<Strip(AddedBlock(old_records, new_records))>> ELSE << >>)
    \o (IF removed_ids(old_records, new_records) # << >>
        THEN <<Strip(RemovedBlock(old_records, new_records))>> ELSE << >>)
    \o (IF ShowsChanged(changed_records(old_records, new_records))
        THEN <<Strip(ChangedBlock(old_records, new_records))>> ELSE << >>)
    \o (IF source_url # None
        THEN <<<<[kind |-> "detected", url |-> Get(source_url)]>>>> ELSE << >>)

SummaryPart(what, n) == [what |-> what, count |-> n, noun |-> NounFor(n)]

\* lines 333-343
summary(old_records, new_records) ==
    (IF added_ids(old_records, new_records) # << >>
     THEN <<SummaryPart("added", Len(added_ids(old_records, new_records)))>> ELSE << >>)
    \o (IF removed_ids(old_records, new_records) # << >>
        THEN <<SummaryPart("removed", Len(removed_ids(old_records, new_records)))>> ELSE << >>)
    \o (IF changed_records(old_records, new_records) # << >>
        THEN <<SummaryPart("changed", Len(changed_records(old_records, new_records)))>>
        ELSE << >>)

\* lines 281-348: "{summary_text}\n\n{body}", body the blocks joined by an
\* empty line; without a summary the first line is "<verb> <display_name>"
update_message(old_records, new_records, verb) ==
    [summary_text |-> IF summary(old_records, new_records) # << >>
                      THEN [verb |-> "", parts |-> summary(old_records, new_records)]
                      ELSE [verb |-> verb, parts |-> << >>],
     body |-> message_blocks(old_records, new_records)]

\* lines 278-279
create_message(new_records) == update_message(<< >>, new_records, "Created")

(***************************************************************************)
(* The message of a DeltaScraper pass: scrape_and_store, lines 213-218,    *)
(* over record lists with unique keys.                                     *)
(***************************************************************************)
DeltaIds == {ToString(i) : i \in 1..MaxRecords}

DeltaRecords ==
    {[id |-> i, cause |-> c] : i \in DeltaIds, c \in {"wind", "ice"}}
    \cup {[id |-> i, cause |-> c, crew |-> "sent"] : i \in DeltaIds, c \in {"wind", "ice"}}

UniqueKeys(records) ==
    \A i, j \in DOMAIN records : records[i][record_key] = records[j][record_key] => i = j

RecordLists ==
    {records \in UNION {[1..n -> DeltaRecords] : n \in 0..MaxRecords} : UniqueKeys(records)}

NoMessage == [summary_text |-> [verb |-> "", parts |-> << >>], body |-> << >>]

InitDelta ==
    /\ test_mode = TRUE
    /\ github_token = TRUE
    /\ \E prior \in {None} \cup {Some(records) : records \in RecordLists} :
         /\ last_data = prior
         /\ last_sha = (IF prior = None THEN 0 ELSE 1)
    /\ data \in {Some(records) : records \in RecordLists}
    /\ show_changes \in BOOLEAN
    /\ source_url \in {None, Some("https://example.com/outages")}
    /\ delta = NoDelta
    /\ message = NoMessage
    /\ pc = "compare"
    /\ outcome = "running"
    /\ err = ""
    /\ passes = 1
    /\ w_sha = 0
    /\ created_blob = 0
    /\ default_branch_sha = 0
    /\ created_tree = None
    /\ created_commit = 0
    /\ calls = << >>
    /\ returned = None
    /\ externals = 0
    /\ ref = 1
    /\ blobs = << >>
    /\ commits = <<[tree |-> 0, parent |-> 0, by |-> "other"]>>
    /\ baseline = [ref |-> 1, doc |-> 0]
    /\ InitNoKubra

\* lines 213-218: update_message(self.last_data, data) when there is a prior
\* sha, else create_message(data); in test mode the message is printed
BuildMessage ==
    /\ pc = "compare"
    /\ LET old_records == IF last_sha # 0 THEN Get(last_data) ELSE << >>
           new_records == Get(data)
       IN /\ message' = (IF last_sha # 0
                         THEN update_message(old_records, new_records, "Updated")
                         ELSE create_message(new_records))
          /\ delta' = [added_ids |-> added_ids(old_records, new_records),
                       removed_ids |-> removed_ids(old_records, new_records),
                       changed_records |-> changed_records(old_records, new_records)]
    /\ EndPass("dryrun")
    /\ UNCHANGED <<test_mode, github_token, data, passes, write_vars, store_vars, kubra_vars,
                   show_changes, source_url>>

NextDelta == BuildMessage

SpecDelta == InitDelta /\ [][NextDelta]_vars

(***************************************************************************)
(* Claims about the orchestrator and the content client.                   *)
(***************************************************************************)
CallsOf(op) == {i \in DOMAIN calls : calls[i].op = op}
PassEnded == pc = "idle" /\ outcome \notin {"init", "running"}
\* the return without a write that ends a pass on equal snapshots: the
\* "Nothing changed" return (line 213), or, in test mode without a
\* credential, the return at line 209 that precedes the comparison
NoOpOutcome == IF test_mode /\ ~github_token THEN "printed" ELSE "nochange"

\* C1: when fetch_data returns a snapshot structurally equal to the prior
\* snapshot, the pass ends at once in NoOp: it returns without an error,
\* no request of write was sent, and the retained state and the remote
\* store are untouched.
C1_EqualSnapshotEndsInNoOp ==
    [][(pc = "fetch" /\ data' # None /\ data' = last_data)
         => /\ pc' = "idle"
            /\ outcome' = NoOpOutcome
            /\ calls' = << >>
            /\ returned' = None
            /\ UNCHANGED <<last_data, last_sha, blobs, commits, ref>>]_vars

C1_Witness ==
    /\ PassEnded
    /\ outcome = "nochange"
    /\ Truthy(data)
    /\ data = last_data
    /\ calls = << >>

\* C2: a pass that ended with an exception left the document and the
\* branch ref as they were without it (as at the start of the pass, moved
\* only by other writers' commits).
C2_FatalPassLeavesRemote ==
    (PassEnded /\ outcome = "error") => (ref = baseline.ref /\ DocSha = baseline.doc)

C2_Witness ==
    /\ PassEnded
    /\ outcome = "error"
    /\ CallsOf("create_commit") # {}
    /\ ref = baseline.ref

\* C3: one write call sends at most two direct submissions.  When the first,
\* sent without a sha, is rejected as "sha required", the next request is the
\* re-read; once it answered a sha, the next request is the second submission,
\* carrying exactly that sha; a second "sha required" ends the call with
\* UnknownError, and nothing is re-read or submitted after it.
C3_MissingShaRetriesOnce ==
    /\ Cardinality(CallsOf("put")) <= 2
    /\ (Len(calls) >= 1 /\ calls[1].sha = 0 /\ calls[1].status = "sha_required") =>
         /\ (Len(calls) = 1 => pc = "reread")
         /\ (Len(calls) >= 2 => calls[2].op = "read")
         /\ ((Len(calls) = 2 /\ calls[2].status = "ok")
               => pc = "put" /\ w_sha = calls[2].sha /\ w_sha # 0)
         /\ (Len(calls) >= 3
               => calls[3].op = "put" /\ calls[2].status = "ok" /\ calls[3].sha = calls[2].sha)
         /\ ((Len(calls) >= 3 /\ calls[3].status = "sha_required")
               => Len(calls) = 3 /\ PassEnded /\ outcome = "error" /\ err = "UnknownError")
         /\ \A i \in DOMAIN calls : i > 3 => calls[i].op \notin {"put", "read"}

C3_Witness ==
    /\ Len(calls) = 3
    /\ calls[1].sha = 0
    /\ calls[1].status = "sha_required"
    /\ calls[3].op = "put"
    /\ calls[3].status = "sha_required"
    /\ err = "UnknownError"

StaleRejected ==
    /\ Len(calls) >= 1
    /\ calls[1].sha # 0
    /\ calls[1].status \in {"sha_required", "conflict"}

\* C4 (as claimed): a write called with a stale sha re-reads the sha once and
\* submits again.
C4_StaleShaRetriesOnce ==
    (PassEnded /\ StaleRejected) => Cardinality(CallsOf("read")) = 1

\* C4 (amended): a write called with a stale sha is not retried: the rejected
\* submission is its only request and the call fails with UnknownError; no
\* write call re-reads the sha more than once.
C4_StaleShaFailsWithoutRetry ==
    /\ StaleRejected =>
         /\ Len(calls) = 1
         /\ PassEnded
         /\ outcome = "error"
         /\ err = "UnknownError"
    /\ Cardinality(CallsOf("read")) <= 1

C4_Witness ==
    /\ StaleRejected
    /\ calls[1].status = "conflict"
    /\ outcome = "error"
    /\ passes = 2

LargeSteps == <<"create_blob", "get_tree", "create_tree", "create_commit", "patch_ref">>

\* C5: after a direct submission rejected as too large, the requests sent
\* are, in order and once each, create blob, read tree, create tree, create
\* commit, move ref.  When the call returns, all five were sent, the tree was
\* built on the sha the tree listing answered (the ref tip then), the commit
\* has that sha as parent and the new tree as tree, the ref was asked to move
\* to that commit last, and the call returned (blob sha, commit sha).
C5_LargeWriteSequence ==
    \A i \in DOMAIN calls : calls[i].status = "too_large" =>
        LET n == Len(calls) - i
            step(k) == calls[i + k]
        IN /\ n <= 5
           /\ \A k \in 1..n : step(k).op = LargeSteps[k]
           /\ returned # None =>
                /\ n = 5
                /\ \A k \in 1..4 : step(k).status = "ok"
                /\ step(3).sha = step(2).sha
                /\ step(4).sha = step(2).sha
                /\ blobs[created_blob] = JsonDumpsBytes(Get(data))
                /\ commits[CommitIndex(created_commit)].tree = created_blob
                /\ commits[CommitIndex(created_commit)].parent = step(2).sha
                /\ step(5).sha = created_commit
                /\ returned = Some(<<created_blob, created_commit>>)

C5_Witness ==
    /\ returned # None
    /\ calls # << >>
    /\ calls[Len(calls)].op = "patch_ref"
    /\ calls[Len(calls)].status = "ok"
    /\ ref = CommitIndex(created_commit)
    /\ DocSha = created_blob

\* a response the write protocol handles without failing
Tolerated(c) ==
    \/ c.op = "read"
    \/ c.status \in {"ok", "created", "updated"}
    \/ c.op = "put" /\ c.status = "too_large"
    \/ c.op = "put" /\ c.status = "sha_required" /\ c.sha = 0

\* C6: once the remote store has rejected a step of a write (other than
\* "too large" on the direct submission, or "sha required" with no sha
\* supplied), the write returns no tokens and the pass ends with an error.
C6_NoTokensAfterRejection ==
    (\E i \in DOMAIN calls : ~Tolerated(calls[i]))
        => /\ returned = None
           /\ PassEnded => outcome = "error"

(***************************************************************************)
(* Claims about the tile walk.                                             *)
(***************************************************************************)
ZoomIns == {i \in DOMAIN stack : stack[i].cluster_search}

\* C7: within one resolution pass no tile URL is requested twice, over all
\* zoom and neighbour recursion.
C7_NoTileFetchedTwice ==
    \A i, j \in DOMAIN fetch_log : fetch_log[i] = fetch_log[j] => i = j

C7_Witness ==
    /\ Len(stack) >= 3
    /\ \E i \in DOMAIN fetch_log : fetch_log[i] \in skipped

\* C8: every resolution pass that was started ends: _fetch_data returns to
\* fetch_data, which returns the outages or raises.
C8_WalkTerminates == (pc = "walk") ~> (pc # "walk")

C8_Witness ==
    /\ pc # "walk"
    /\ stack = << >>
    /\ Len(fetch_log) > MAX_ZOOM - MIN_ZOOM
    /\ skipped # {}

\* C9 (as claimed): the nesting depth of _fetch_data, zoom and neighbour
\* recursion counted alike, never exceeds MAX_ZOOM - MIN_ZOOM.
C9_DepthWithinZoomRange == Len(stack) - 1 <= MAX_ZOOM - MIN_ZOOM

\* C9 (amended): the zoom-in calls nested on the stack never exceed
\* MAX_ZOOM - MIN_ZOOM: a frame's zoom is MIN_ZOOM plus the zoom-in calls up
\* to it and is at most MAX_ZOOM.  The neighbour search recurses at the same
\* zoom, and the whole depth is bounded by the number of tiles fetched.
C9_ZoomDepthWithinZoomRange ==
    /\ Cardinality(ZoomIns) <= MAX_ZOOM - MIN_ZOOM
    /\ \A i \in DOMAIN stack :
         /\ stack[i].zoom = MIN_ZOOM + Cardinality({j \in ZoomIns : j <= i})
         /\ stack[i].zoom <= MAX_ZOOM
    /\ Len(stack) - 1 <= Len(fetch_log)

C9_Witness ==
    /\ Len(stack) - 1 > MAX_ZOOM - MIN_ZOOM
    /\ Cardinality(ZoomIns) = MAX_ZOOM - MIN_ZOOM

\* C10: the list fetch_data returned sums to the vendor's total; when the
\* sums differ it raised, returned nothing, and the pass ended with no
\* request of write and the remote store as it was.
C10_TotalsMatchOrNoWrite ==
    /\ data # None => SumNumberOut(Get(data)) = expected_outages
    /\ (PassEnded /\ err = "ResolutionMismatch") =>
         /\ number_out # expected_outages
         /\ data = None
         /\ calls = << >>
         /\ returned = None
         /\ ref = baseline.ref
         /\ DocSha = baseline.doc

C10_Witness ==
    /\ PassEnded
    /\ err = "ResolutionMismatch"
    /\ number_out > 0
    /\ Len(fetch_log) > 1
    /\ calls = << >>

(***************************************************************************)
(* Claims about the records of the walk.                                   *)
(***************************************************************************)
\* the record synthesized for an entry that has no incident id
SynthesizedId(o) == [inc |-> "", p |-> o.p, t |-> o.start_time]

\* the running call is about to process a cluster entry at the last zoom
ClusterAtMaxZoom ==
    /\ pc = "walk"
    /\ stack # << >>
    /\ Top.waiting = "none"
    /\ Top.entries # << >>
    /\ Head(Top.entries).cluster
    /\ Top.zoom = MAX_ZOOM

\* C11: a cluster entry met at zoom = MAX_ZOOM is not recursed into (no call
\* runs above MAX_ZOOM, no call at MAX_ZOOM waits for a zoom-in, and the step
\* that processes the entry leaves the stack at its depth); the step records
\* one record with cluster = TRUE under the id made of the entry's point and
\* start time; and a call at MAX_ZOOM whose one tile held one cluster entry
\* returns exactly that one record.
C11_MaxZoomClusterRecorded ==
    /\ [](\A i \in DOMAIN stack :
            /\ stack[i].zoom <= MAX_ZOOM
            /\ stack[i].zoom = MAX_ZOOM => stack[i].waiting # "zoom"
            /\ (/\ stack[i].zoom = MAX_ZOOM
                /\ FrameDone(stack[i])
                /\ stack[i].q # << >>
                /\ Len(Response(stack[i].q).file_data) = 1
                /\ Response(stack[i].q).file_data[1].cluster)
               => /\ Len(stack[i].outages) = 1
                  /\ stack[i].outages[1].cluster
                  /\ stack[i].outages[1].id = SynthesizedId(Response(stack[i].q).file_data[1]))
    /\ [][ClusterAtMaxZoom =>
            /\ Len(stack') = Len(stack)
            /\ stack'[Len(stack)].entries = Tail(Top.entries)
            /\ \E j \in DOMAIN stack'[Len(stack)].outages :
                 LET r == stack'[Len(stack)].outages[j] IN
                   /\ r.cluster
                   /\ r.id = SynthesizedId(Head(Top.entries))
                   /\ r.numberOut = Head(Top.entries).n_out
                   /\ r.source = _get_quadkey_url(Top.q)
            /\ \A j \in DOMAIN stack'[Len(stack)].outages :
                 \/ stack'[Len(stack)].outages[j].id = SynthesizedId(Head(Top.entries))
                 \/ \E k \in DOMAIN Top.outages :
                      Top.outages[k] = stack'[Len(stack)].outages[j]]_vars

C11_Witness ==
    /\ pc = "walk"
    /\ \E i \in DOMAIN stack :
         /\ stack[i].zoom = MAX_ZOOM
         /\ FrameDone(stack[i])
         /\ stack[i].q # << >>
         /\ Len(Response(stack[i].q).file_data) = 1
         /\ Len(stack[i].outages) = 1
         /\ stack[i].outages[1].cluster

\* the tile requests of the running pass that failed otherwise than by a
\* clean "not found"
FailedFetches ==
    {i \in DOMAIN fetch_log :
        Response(fetch_log[i].quadkey).status \notin {"ok", "not_found"}}

\* C12: a tile request that fails otherwise than by a clean "not found" makes
\* the pass fail with UnknownError instead of counting as an empty tile: once
\* such a request was made, the walk is over and the pass has ended with that
\* error.
C12_FailedFetchFailsPass ==
    FailedFetches # {} => (PassEnded /\ err = "UnknownError")

(***************************************************************************)
(* Claims about reading.                                                   *)
(***************************************************************************)
\* the pass wrote through write_large, the call returned its two shas, and
\* no commit was made after the one it created
LargeWriteReturned ==
    /\ PassEnded
    /\ outcome = "written"
    /\ CallsOf("create_blob") # {}
    /\ created_commit = CommitSha(Len(commits))

\* C13: after a write of bytes b through the large-object protocol returned,
\* the document is there, every read of it that succeeds (by the inline, the
\* download or the tree-listing branch) returns content identical to b, and
\* the commit sha returned differs from the commit the branch was at.
C13_LargeWriteReadRoundTrip ==
    LargeWriteReturned =>
        /\ Get(returned)[2] # CommitSha(baseline.ref)
        /\ DocExists
        /\ \A resp \in ReadResponses :
             read(resp).status = "ok"
                => read(resp).content = Some(JsonDumpsBytes(Get(data)))

\* the pass was ended by an exception of the read of LoadPrior: nothing was
\* fetched and no write request was sent
ReadRaised ==
    /\ PassEnded
    /\ outcome = "error"
    /\ data = None
    /\ calls = << >>
    /\ err # "ResolutionMismatch"

\* C14: read returns (content, sha), or fails with NotFound when the document
\* is absent (which the orchestrator catches), or fails with UnknownError on
\* every other response: an exception of read that ends a pass is UnknownError.
C14_ReadFailsWithUnknownError ==
    ReadRaised => err = "UnknownError"

(***************************************************************************)
(* Claims about the state the orchestrator keeps between passes.           *)
(***************************************************************************)
\* the step that starts the pass following a pass that wrote
StartsAfterWrite == pc = "idle" /\ outcome = "written" /\ passes' = passes + 1

MessageBuilt == PassEnded /\ outcome = "dryrun" /\ message # NoMessage

OldRecords == IF last_sha # 0 THEN Get(last_data) ELSE << >>
NewRecords == Get(data)

KeysOf(records) == {records[i][record_key] : i \in DOMAIN records}
PosOfKey(records, id) == CHOOSE i \in DOMAIN records : records[i][record_key] = id

\* ids is exactly the keys of `of` that no record of `other` has, in the
\* order of `of`
KeysOnlyIn(ids, of, other) ==
    /\ {ids[i] : i \in DOMAIN ids} = KeysOf(of) \ KeysOf(other)
    /\ \A i, j \in DOMAIN ids : i < j => PosOfKey(of, ids[i]) < PosOfKey(of, ids[j])

\* pairs is exactly the (old, new) records of equal key and unequal value, in
\* the order of the new records
PairsChanged(pairs, old_records, new_records) ==
    /\ \A i \in DOMAIN pairs :
         /\ InList(old_records, pairs[i].old)
         /\ InList(new_records, pairs[i].new)
         /\ pairs[i].old[record_key] = pairs[i].new[record_key]
         /\ pairs[i].old # pairs[i].new
    /\ \A m \in DOMAIN old_records, n \in DOMAIN new_records :
         (/\ old_records[m][record_key] = new_records[n][record_key]
          /\ old_records[m] # new_records[n])
         => InList(pairs, [old |-> old_records[m], new |-> new_records[n]])
    /\ \A i, j \in DOMAIN pairs :
         i < j => PosOfKey(new_records, pairs[i].new[record_key])
                    < PosOfKey(new_records, pairs[j].new[record_key])

ExampleOld == <<[id |-> "1", cause |-> "wind"]>>
ExampleNew == <<[id |-> "1", cause |-> "ice"], [id |-> "2", cause |-> "wind"]>>

\* C16: for record lists with unique keys, added is exactly the new records
\* whose key is absent from old, in new order; removed exactly the old records
\* whose key is absent from new, in old order; changed exactly the (old, new)
\* pairs of equal key and unequal value, in new order; and old [1 wind], new
\* [1 ice, 2 wind] gives added [2], removed [], changed [(1 wind, 1 ice)].
C16_DiffIsExact ==
    MessageBuilt =>
        /\ KeysOnlyIn(delta.added_ids, NewRecords, OldRecords)
        /\ KeysOnlyIn(delta.removed_ids, OldRecords, NewRecords)
        /\ PairsChanged(delta.changed_records, OldRecords, NewRecords)
        /\ (OldRecords = ExampleOld /\ NewRecords = ExampleNew)
             => /\ delta.added_ids = <<"2">>
                /\ delta.removed_ids = << >>
                /\ delta.changed_records = <<[old |-> ExampleOld[1], new |-> ExampleNew[1]]>>

C16_Witness ==
    /\ MessageBuilt
    /\ last_sha # 0
    /\ OldRecords = ExampleOld
    /\ NewRecords = ExampleNew
    /\ Len(delta.changed_records) = 1

\* each pair turned round
Reversed(pairs) == [i \in DOMAIN pairs |-> [old |-> pairs[i].new, new |-> pairs[i].old]]
PairSet(pairs) == {pairs[i] : i \in DOMAIN pairs}

\* C17 as stated: the changed list of diff(B, A) is the changed list of
\* diff(A, B) with each pair reversed (with added and removed swapped, and
\* diff(A, A) empty).
C17_ReverseDiffReversesPairs ==
    MessageBuilt =>
        /\ OldRecords = NewRecords => delta = NoDelta
        /\ added_ids(NewRecords, OldRecords) = delta.removed_ids
        /\ removed_ids(NewRecords, OldRecords) = delta.added_ids
        /\ changed_records(NewRecords, OldRecords) = Reversed(delta.changed_records)

\* C17: diff(A, A) has empty added, removed and changed; diff(B, A) has
\* added = removed of diff(A, B), removed = added of diff(A, B), and the same
\* changed pairs as diff(A, B), each reversed, listed in the order of A where
\* diff(A, B) lists them in the order of B.
C17_ReverseDiffSwaps ==
    MessageBuilt =>
        /\ OldRecords = NewRecords => delta = NoDelta
        /\ added_ids(NewRecords, OldRecords) = delta.removed_ids
        /\ removed_ids(NewRecords, OldRecords) = delta.added_ids
        /\ PairSet(changed_records(NewRecords, OldRecords))
             = PairSet(Reversed(delta.changed_records))
        /\ Len(changed_records(NewRecords, OldRecords)) = Len(delta.changed_records)
        /\ PairsChanged(changed_records(NewRecords, OldRecords), NewRecords, OldRecords)

C17_Witness ==
    /\ MessageBuilt
    /\ Len(delta.changed_records) = 2
    /\ delta.changed_records[1].old = OldRecords[2]
    /\ changed_records(NewRecords, OldRecords)[1].new = OldRecords[1]

\* the fields in which two records differ, a field one record lacks included
DifferingFields(old_record, new_record) ==
    {k \in DOMAIN old_record \cup DOMAIN new_record :
        DictGet(old_record, k) # DictGet(new_record, k)}

\* the fields named by the lines of a change detail
FieldsListed(text) == {text[i].key : i \in {j \in DOMAIN text : text[j].kind = "change"}}

\* C18: for each changed (old, new) pair of a message that shows changes, the
\* change detail lists exactly the fields whose old and new values differ,
\* the fields present in new and absent from old included.
C18_ChangeDetailListsDifferingFields ==
    (MessageBuilt /\ show_changes) =>
        \A i \in DOMAIN delta.changed_records :
            FieldsListed(display_changes(delta.changed_records[i].old,
                                         delta.changed_records[i].new))
              = DifferingFields(delta.changed_records[i].old, delta.changed_records[i].new)

\* what the blocks of a body are, in order: "new", "removed", "changed" by
\* the header of a block, "detected" for the provenance line
BlockKinds(body) ==
    [i \in DOMAIN body |-> IF body[i][1].kind = "header" THEN body[i][1].what ELSE "detected"]

SummaryKinds(text) == [i \in DOMAIN text.parts |-> text.parts[i].what]

IfAny(xs, kind) == IF xs # << >> THEN <<kind>> ELSE << >>

\* the first line is the summary of the categories that are not empty, or
\* "<verb> <name>" when all are empty
SummaryLineRight ==
    /\ SummaryKinds(message.summary_text)
         = IfAny(delta.added_ids, "added") \o IfAny(delta.removed_ids, "removed")
           \o IfAny(delta.changed_records, "changed")
    /\ message.summary_text.verb = "" <=> message.summary_text.parts # << >>

\* C19 as stated: the message is a summary line, then exactly one block for
\* each category among added, removed and changed that is not empty, then
\* the provenance line when one is configured.
C19_OneBlockPerNonEmptyCategory ==
    MessageBuilt =>
        /\ SummaryLineRight
        /\ BlockKinds(message.body)
             = IfAny(delta.added_ids, "new") \o IfAny(delta.removed_ids, "removed")
               \o IfAny(delta.changed_records, "changed")
               \o (IF source_url # None THEN <<"detected">> ELSE << >>)

\* C19: the message is a summary line, then exactly one block for each of
\* added and removed that is not empty, then one block for changed when it is
\* not empty and show_changes is set (none when show_changes is not set),
\* then the provenance line when one is configured.
C19_BlocksOfMessage ==
    MessageBuilt =>
        /\ SummaryLineRight
        /\ BlockKinds(message.body)
             = IfAny(delta.added_ids, "new") \o IfAny(delta.removed_ids, "removed")
               \o (IF show_changes THEN IfAny(delta.changed_records, "changed") ELSE << >>)
               \o (IF source_url # None THEN <<"detected">> ELSE << >>)

C19_Witness ==
    /\ MessageBuilt
    /\ ~show_changes
    /\ source_url # None
    /\ delta.changed_records # << >>
    /\ delta.added_ids # << >>
    /\ Len(message.body) = 2

(***************************************************************************)
(* Claims about the dry-run mode.                                          *)
(***************************************************************************)
\* a test-mode pass ended after fetching a snapshot that differs from the
\* prior one (which a test-mode pass never replaces)
DryRunPassDiffers ==
    /\ test_mode
    /\ PassEnded
    /\ data # None
    /\ data # last_data

\* the pass sent nothing to the store and nothing in the store is its own
NothingWritten ==
    /\ calls = << >>
    /\ returned = None
    /\ \A i \in DOMAIN commits : commits[i].by # "self"

\* C20 as stated: in test mode no pass calls write, and a pass whose
\* snapshots differ builds and prints the would-be message.
C20_DryRunPrintsMessage ==
    /\ test_mode => NothingWritten
    /\ DryRunPassDiffers => (outcome = "dryrun" /\ message \in {"Updated", "Created"})

\* C20: in test mode no pass calls write, whatever the snapshots are; a pass
\* whose snapshots differ builds and prints the would-be message when a
\* credential is configured, and without one prints the fetched data and
\* ends before the comparison, with no message built.
C20_DryRunNeverWrites ==
    /\ test_mode => NothingWritten
    /\ DryRunPassDiffers =>
         IF github_token
         THEN outcome = "dryrun" /\ message \in {"Updated", "Created"}
         ELSE outcome = "printed" /\ message = ""
    /\ (test_mode /\ PassEnded /\ outcome = "dryrun") => (github_token /\ data # last_data)

C20_Witness ==
    /\ test_mode
    /\ github_token
    /\ PassEnded
    /\ outcome = "dryrun"
    /\ message = "Updated"
    /\ passes = 2
    /\ externals > 0

(***************************************************************************)
(* Claims about the orchestrator's handling of missing data.               *)
(***************************************************************************)
\* the fetch strategy raised instead of returning
FetchRaised == outcome' = "error" /\ err' = "ResolutionMismatch"

\* fetch_data() returned None to scrape_and_store
FetchReturnedNone ==
    /\ pc = "fetch"
    /\ pc' # "fetch"
    /\ data' = None
    /\ ~FetchRaised

\* C21: when the fetch strategy returns None, the pass ends there: nothing
\* is raised, no request of write is sent, nothing in the store changes, and
\* the retained prior snapshot and token stay as LoadPrior left them.
C21_NoneEndsPassWithoutWrite ==
    [][FetchReturnedNone =>
         /\ pc' = "idle"
         /\ outcome' = "nodata"
         /\ err' = ""
         /\ calls' = << >>
         /\ returned' = None
         /\ last_data' = last_data
         /\ last_sha' = last_sha
         /\ UNCHANGED <<blobs, commits, ref>>]_vars

C21_Witness ==
    /\ PassEnded
    /\ outcome = "nodata"
    /\ data = None
    /\ last_data # None
    /\ last_sha = DocSha
    /\ last_sha # 0
    /\ calls = << >>

(***************************************************************************)
(* Claims about a missing document at LoadPrior.                           *)
(***************************************************************************)
\* a pass starts and reads the document (no prior snapshot and sha retained)
LoadPriorReads ==
    /\ pc = "idle"
    /\ passes' = passes + 1
    /\ ~(Truthy(last_data) /\ last_sha # 0)

\* the first submission of a pass that holds no version token
FirstPutWithoutPrior ==
    /\ pc = "put"
    /\ last_sha = 0
    /\ calls = << >>
    /\ calls' # << >>

\* C22: NotFound never ends a pass at LoadPrior: a LoadPrior that reads
\* either fails with one of the fatal errors or goes on to Fetch; where the
\* document does not exist it goes on with no prior snapshot and no version
\* token, and the first submission of a pass without a token carries none.
C22_NotFoundContinuesWithoutToken ==
    [][/\ LoadPriorReads =>
            \/ outcome' = "error" /\ err' \in {"UnknownError", "KeyError"}
            \/ /\ pc' = "fetch"
               /\ outcome' = "running"
               /\ err' = ""
               /\ last_sha' = 0 => last_data' = None
               /\ ~DocExists => (last_data' = None /\ last_sha' = 0)
       /\ FirstPutWithoutPrior =>
            /\ last_data = None
            /\ calls'[1].op = "put"
            /\ calls'[1].sha = 0]_vars

C22_Witness ==
    /\ PassEnded
    /\ outcome = "written"
    /\ baseline.doc = 0
    /\ calls = <<Call("put", 0, "created")>>
    /\ last_sha = DocSha
    /\ last_data = data

(***************************************************************************)
(* Claims about concurrent writers.                                        *)
(***************************************************************************)
\* a step in which a commit of the scraper becomes the tip of the branch
OwnCommitLands == ref' # ref /\ commits'[ref'].by = "self"

\* C23: with another writer committing to the same path, a write replaces
\* only the document version whose sha it was called with (none, for a
\* document that does not exist): whenever a commit of the scraper becomes
\* the branch tip, the document it replaces is the one of the token that
\* scrape_and_store passed to write.
C23_WriteReplacesOnlyTokenVersion ==
    [][OwnCommitLands => DocSha = last_sha]_vars

(***************************************************************************)
(* Claims about the mapping the walk returns.                              *)
(***************************************************************************)
\* the outermost _fetch_data call is about to return its mapping
TopLevelReturns == pc = "walk" /\ Len(stack) = 1 /\ FrameDone(Top)

\* an entry that is recorded where it is met: an incident, or a cluster in
\* a tile of the last zoom (a quadkey holds one digit per zoom level)
Resolved(o, url) == ~o.cluster \/ Len(url.quadkey) = MAX_ZOOM

\* the records of the entries of the tiles fetched with success in this pass
FetchedRecords ==
    UNION {{_get_outage_info(Response(url.quadkey).file_data[j], url) :
               j \in DOMAIN Response(url.quadkey).file_data} :
           url \in {u \in {fetch_log[i] : i \in DOMAIN fetch_log} :
                      ResponseOk(Response(u.quadkey))}}

\* C24: when the outermost _fetch_data call returns, its mapping holds,
\* under its id, every incident entry and every cluster entry of the last
\* zoom of every tile fetched with success in the pass, whatever tiles were
\* skipped as visited on the way; the record under an id is the record of
\* an entry of a fetched tile with that id, and no id is held twice.
C24_NoResolvedResultLost ==
    TopLevelReturns =>
      /\ \A i \in DOMAIN fetch_log :
           LET url == fetch_log[i]
               res == Response(url.quadkey)
           IN ResponseOk(res) =>
                \A j \in DOMAIN res.file_data :
                  Resolved(res.file_data[j], url) =>
                    HasKey(Top.outages, _get_outage_info(res.file_data[j], url).id)
      /\ \A k \in DOMAIN Top.outages : Top.outages[k] \in FetchedRecords
      /\ \A k, l \in DOMAIN Top.outages : Top.outages[k].id = Top.outages[l].id => k = l

C24_Witness ==
    /\ TopLevelReturns
    /\ skipped # {}
    /\ Len(fetch_log) > MAX_ZOOM - MIN_ZOOM
    /\ \E k, l \in DOMAIN Top.outages : Top.outages[k].cluster /\ ~Top.outages[l].cluster

(***************************************************************************)
(* Claims about the counts of the message.                                 *)
(***************************************************************************)
\* the number of records of the category a block header names
CategoryCount(what) ==
    CASE what = "new" -> Len(delta.added_ids)
      [] what = "removed" -> Len(delta.removed_ids)
      [] what = "changed" -> Len(delta.changed_records)

\* the headers of the blocks of the message
BlockHeaders ==
    {message.body[i][1] : i \in {j \in DOMAIN message.body : message.body[j][1].kind = "header"}}

\* C25: the count in the header of each block of the message is the number
\* of records of its category, with the noun in the matching number; the
\* header of the changed block shows the number of changed pairs, the count
\* that the summary line gives as "K changed".
C25_HeaderCountsMatchCategory ==
    MessageBuilt =>
        \A h \in BlockHeaders :
            /\ h.count = CategoryCount(h.what)
            /\ h.noun = NounFor(CategoryCount(h.what))
            /\ h.what = "changed" =>
                 \E i \in DOMAIN message.summary_text.parts :
                    /\ message.summary_text.parts[i].what = "changed"
                    /\ message.summary_text.parts[i].count = h.count

====
